---- MODULE Spec2Model ----
(***************************************************************************)
(* Othello/Reversi engine of yk-amarly-20/BitBoard.                        *)
(*                                                                         *)
(* src/bitboard.py holds the engine used by the interactive text loop      *)
(* (main), src/web.py holds a second copy of the engine used by the Flask  *)
(* request handlers.                                                       *)
(*                                                                         *)
(* Representation.  A Python int that is used as a bitboard is modelled by *)
(* the set of the positions of its 1 bits (Python ints are unbounded, so   *)
(* the set may hold positions above 63 until a mask removes them):         *)
(*     a & b  is  a \cap b        a | b  is  a \cup b                      *)
(*     a ^ b  is  Xor(a, b)       a & ~m is  a \ m                         *)
(*     a << n is  Shl(a, n)       a >> n is  Shr(a, n)                     *)
(* A Python str is modelled by the sequence of its characters, each a      *)
(* one-character string.  A call that raises is modelled by a result       *)
(* record whose field ok is FALSE.                                         *)
(***************************************************************************)
EXTENDS Integers, Sequences, FiniteSets, TLC

VARIABLES
    host,            \* "text": main() of bitboard.py; "web": the Flask app; "api": direct calls
    black,           \* BitBoard.black of the game object
    white,           \* BitBoard.white of the game object
    current_player,  \* BitBoard.current_player of the game object, "B" or "W"
    pc,              \* position of main(): "loop" or "exit"
    session,         \* Flask session: NoGame or the stored __dict__ of a BitBoard
    last,            \* the last call made: its name, argument, state before it, result
    accepted         \* the number of moves make_move has accepted in the game played

vars == <<host, black, white, current_player, pc, session, last, accepted>>

----------------------------------------------------------------------------
(* Bit operations on ints given by the set of their 1 bits *)

Shl(bb, n) == { b + n : b \in bb }

Shr(bb, n) == { b - n : b \in { x \in bb : x >= n } }

Xor(a, b) == (a \ b) \cup (b \ a)

ALL64 == 0 .. 63

MASK_FILE_A == { 8 * r : r \in 0 .. 7 }

\* MASK_FILE_H with no square in it: the East walks are not stopped at the file
NoFileMask == {}

MASK_FILE_H == { 8 * r + 7 : r \in 0 .. 7 }

PopCount(bb) == Cardinality(bb)

MaxBit(bb) == CHOOSE b \in bb : \A c \in bb : c <= b

BitLength(bb) == IF bb = {} THEN 0 ELSE MaxBit(bb) + 1

RECURSIVE Pow2(_)
Pow2(n) == IF n = 0 THEN 1 ELSE 2 * Pow2(n - 1)

\* the int whose 1 bits are the members of bb: the sum over the bits b, b - 1, ..., 0
RECURSIVE IntValueFrom(_, _)
IntValueFrom(bb, b) ==
    IF b < 0 THEN 0
    ELSE (IF b \in bb THEN Pow2(b) ELSE 0) + IntValueFrom(bb, b - 1)

IntValue(bb) == IF bb = {} THEN 0 ELSE IntValueFrom(bb, MaxBit(bb))

\* the bits of an int below 256
IntBits(n) == { b \in 0 .. 7 : (n \div Pow2(b)) % 2 = 1 }

----------------------------------------------------------------------------
(* The game object *)

Other(p) == IF p = "B" THEN "W" ELSE "B"

Game(b, w, p) == [black |-> b, white |-> w, current_player |-> p]

\* __init__ with the two colours exchanged
NewGameColoursExchanged == Game({35, 28}, {27, 36}, "B")

NewGame == Game({27, 36}, {35, 28}, "B")

PlayerBitboards(g) ==
    IF g.current_player = "B" THEN [player |-> g.black, opponent |-> g.white]
                              ELSE [player |-> g.white, opponent |-> g.black]

----------------------------------------------------------------------------
(* Coordinate codec.  Both files hold the same two static methods. *)

Chars ==
    << "-", "/", "0", "1", "2", "3", "4", "5", "6", "7", "8", "9", ":",
       "@", "A", "B", "C", "D", "E", "F", "G", "H", "I", "P", "S", "Z",
       "a", "b", "c", "d", "e", "f", "g", "h", "i", "p", "s", "z" >>

Codes ==
    << 45, 47, 48, 49, 50, 51, 52, 53, 54, 55, 56, 57, 58,
       64, 65, 66, 67, 68, 69, 70, 71, 72, 73, 80, 83, 90,
       97, 98, 99, 100, 101, 102, 103, 104, 105, 112, 115, 122 >>

CharSet == { Chars[i] : i \in 1 .. Len(Chars) }

Ord(c) == Codes[CHOOSE i \in 1 .. Len(Chars) : Chars[i] = c]

Chr(n) == Chars[CHOOSE i \in 1 .. Len(Codes) : Codes[i] = n]

\* str.upper() on one character: a-z map to A-Z, every other character to itself
Upper(c) == IF Ord(c) >= 97 /\ Ord(c) <= 122 THEN Chr(Ord(c) - 32) ELSE c

UpperStr(s) == [i \in 1 .. Len(s) |-> Upper(s[i])]

\* int(c) on one character: the value of the digit, ValueError otherwise
IsDigit(c) == Ord(c) >= 48 /\ Ord(c) <= 57

Raised == [ok |-> FALSE, val |-> 0]

Returned(v) == [ok |-> TRUE, val |-> v]

\* square_to_index without the upper() of the file letter
SquareToIndexNoUpper(square) ==
    IF Len(square) < 2 THEN Raised
    ELSE IF ~IsDigit(square[2]) THEN Raised
    ELSE LET col == Ord(square[1]) - Ord("A")
             row == (Ord(square[2]) - 48) - 1
         IN  Returned(row * 8 + col)

square_to_index(square) ==
    IF Len(square) < 2 THEN Raised                    \* IndexError at square[0] or square[1]
    ELSE IF ~IsDigit(square[2]) THEN Raised           \* ValueError in int()
    ELSE LET col == Ord(Upper(square[1])) - Ord("A")
             row == (Ord(square[2]) - 48) - 1
         IN  Returned(row * 8 + col)

\* chr(col + ord('A')) followed by the decimal text of row + 1
DecimalText(n) ==
    IF n < 0 THEN <<"-">> \o <<Chr(48 + (-n))>> ELSE
    IF n < 10 THEN <<Chr(48 + n)>> ELSE <<Chr(48 + (n \div 10)), Chr(48 + (n % 10))>>

index_to_square(index) ==
    LET row == index \div 8
        col == index % 8
    IN  <<Chr(col + Ord("A"))>> \o DecimalText(row + 1)

----------------------------------------------------------------------------
(* Legal-move generation *)

\* (x << shift) if shift > 0 else (x >> -shift); the text engine writes the
\* same shifts out literally, one block for each direction
Shift(bb, shift) == IF shift > 0 THEN Shl(bb, shift) ELSE Shr(bb, -shift)

\* The while loop of one direction: every candidate is an opponent piece of
\* the masked board; the square after it is legal when it is empty.
RECURSIVE LegalWalk(_, _, _, _, _)
LegalWalk(mask, shift, empty, cand, legal) ==
    IF cand = {} THEN legal
    ELSE LET cand_shifted == Shift(cand, shift)
         IN  LegalWalk(mask, shift, empty, mask \cap cand_shifted,
                       legal \cup (empty \cap cand_shifted))

\* East, West, North, South, NorthEast, NorthWest, SouthEast, SouthWest
TextLegalDirections ==
    << [shift |-> 1,  mask_file |-> MASK_FILE_H],
       [shift |-> -1, mask_file |-> MASK_FILE_A],
       [shift |-> 8,  mask_file |-> {}],
       [shift |-> -8, mask_file |-> {}],
       [shift |-> 9,  mask_file |-> MASK_FILE_H],
       [shift |-> 7,  mask_file |-> MASK_FILE_A],
       [shift |-> -7, mask_file |-> MASK_FILE_H],
       [shift |-> -9, mask_file |-> MASK_FILE_A] >>

WebDirections ==
    << [shift |-> 1,  mask_file |-> MASK_FILE_H],
       [shift |-> -1, mask_file |-> MASK_FILE_A],
       [shift |-> 8,  mask_file |-> {}],
       [shift |-> -8, mask_file |-> {}],
       [shift |-> 9,  mask_file |-> MASK_FILE_H],
       [shift |-> 7,  mask_file |-> MASK_FILE_A],
       [shift |-> -7, mask_file |-> MASK_FILE_H],
       [shift |-> -9, mask_file |-> MASK_FILE_A] >>

LegalInDirection(d, player, opponent, empty) ==
    LET mask == opponent \ d.mask_file
    IN  LegalWalk(mask, d.shift, empty, mask \cap Shift(player, d.shift), {})

\* The number of times the body of the while loop of LegalWalk runs
RECURSIVE LegalWalkIterations(_, _, _)
LegalWalkIterations(mask, shift, cand) ==
    IF cand = {} THEN 0
    ELSE 1 + LegalWalkIterations(mask, shift, mask \cap Shift(cand, shift))

LegalIterations(d, player, opponent) ==
    LET mask == opponent \ d.mask_file
    IN  LegalWalkIterations(mask, d.shift, mask \cap Shift(player, d.shift))

text_get_legal_moves(g) ==
    LET pb    == PlayerBitboards(g)
        empty == ALL64 \ (pb.player \cup pb.opponent)
        legal_moves == UNION { LegalInDirection(TextLegalDirections[i], pb.player,
                                                pb.opponent, empty) : i \in 1 .. 8 }
    IN  legal_moves \cap ALL64

web_get_legal_moves(g) ==
    LET pb    == PlayerBitboards(g)
        empty == ALL64 \ (pb.player \cup pb.opponent)
    IN  UNION { LegalInDirection(WebDirections[i], pb.player, pb.opponent, empty)
                : i \in 1 .. 8 }

----------------------------------------------------------------------------
(* Applying a move *)

\* The while loop that collects the run of one direction; it returns the last
\* candidate and the collected run.
RECURSIVE FlipWalk(_, _, _, _)
FlipWalk(mask, step, cand, flips) ==
    IF cand = {} THEN [cand |-> cand, flips |-> flips]
    ELSE LET tcand == mask \cap Shift(cand, step)
         IN  IF tcand = {} THEN [cand |-> cand, flips |-> flips \cup cand]
             ELSE FlipWalk(mask, step, tcand, flips \cup cand)

\* The eight blocks of the text engine: the shift of the first step from the
\* move, the shift inside the loop, and the shift of the final test.
TextFlipDirections ==
    << [first |-> 1,  step |-> 1,  end |-> 1,  mask_file |-> MASK_FILE_H],
       [first |-> -1, step |-> 1,  end |-> -1, mask_file |-> MASK_FILE_A],
       [first |-> 8,  step |-> 8,  end |-> 8,  mask_file |-> {}],
       [first |-> -8, step |-> -8, end |-> -8, mask_file |-> {}],
       [first |-> 9,  step |-> 9,  end |-> 9,  mask_file |-> MASK_FILE_H],
       [first |-> 7,  step |-> 7,  end |-> 7,  mask_file |-> MASK_FILE_A],
       [first |-> -7, step |-> -7, end |-> -7, mask_file |-> MASK_FILE_H],
       [first |-> -9, step |-> -9, end |-> -9, mask_file |-> MASK_FILE_A] >>

TextFlipsInDirection(d, move_bb, player, opponent) ==
    LET mask == opponent \ d.mask_file
        walk == FlipWalk(mask, d.step, mask \cap Shift(move_bb, d.first), {})
    IN  IF Shift(walk.cand, d.end) \cap player # {} THEN walk.flips ELSE {}

WebFlipsInDirection(d, move_bb, player, opponent) ==
    LET mask == opponent \ d.mask_file
        walk == FlipWalk(mask, d.shift, mask \cap Shift(move_bb, d.shift), {})
        end_bit == Shift(walk.cand, d.shift)
    IN  IF end_bit \cap player # {} THEN walk.flips ELSE {}

\* The number of times the body of the while loop of FlipWalk runs
RECURSIVE FlipWalkIterations(_, _, _)
FlipWalkIterations(mask, step, cand) ==
    IF cand = {} THEN 0
    ELSE LET tcand == mask \cap Shift(cand, step)
         IN  IF tcand = {} THEN 1 ELSE 1 + FlipWalkIterations(mask, step, tcand)

TextFlipIterations(d, move_bb, opponent) ==
    LET mask == opponent \ d.mask_file
    IN  FlipWalkIterations(mask, d.step, mask \cap Shift(move_bb, d.first))

WebFlipIterations(d, move_bb, opponent) ==
    LET mask == opponent \ d.mask_file
    IN  FlipWalkIterations(mask, d.shift, mask \cap Shift(move_bb, d.shift))

\* The result of a call: ok is FALSE when it raised, result is the value
\* returned, game the object after the call.
Outcome(ok, result, g) == [ok |-> ok, result |-> result, game |-> g]

\* if move.bit_length() <= 6: move is an index, else it is a bitboard
TextMoveBitboard(move) == IF BitLength(move) <= 6 THEN {IntValue(move)} ELSE move

\* TextIsLegal with the legal-move set left out of the test
TextIsLegalAnySquare(move_bb, legal) == move_bb \cap ALL64 # {}

\* the test that lets a move through: (move_bb & legal) != 0
TextIsLegal(move_bb, legal) == move_bb \cap legal # {}

\* TextApply with the flipped pieces left on the side of the opponent
TextApplyKeepsOpponent(g, move_bb, total_flips) ==
    IF g.current_player = "B"
    THEN Game(Xor(g.black, move_bb \cup total_flips) \cup move_bb, g.white, "W")
    ELSE Game(g.black, Xor(g.white, move_bb \cup total_flips) \cup move_bb, "B")

\* the update of the board and of the turn, text engine
TextApply(g, move_bb, total_flips) ==
    IF g.current_player = "B"
    THEN Game(Xor(g.black, move_bb \cup total_flips) \cup move_bb,
              Xor(g.white, total_flips), "W")
    ELSE Game(Xor(g.black, total_flips),
              Xor(g.white, move_bb \cup total_flips) \cup move_bb, "B")

\* WebApply with flips & move_bb written for flips | move_bb
WebApplyAnd(g, move_bb, flips) ==
    IF g.current_player = "B"
    THEN Game(Xor(g.black, flips \cap move_bb), Xor(g.white, flips), "W")
    ELSE Game(Xor(g.black, flips), Xor(g.white, flips \cap move_bb), "B")

\* the update of the board and of the turn, web engine
WebApply(g, move_bb, flips) ==
    IF g.current_player = "B"
    THEN Game(Xor(g.black, flips \cup move_bb), Xor(g.white, flips), "W")
    ELSE Game(Xor(g.black, flips), Xor(g.white, flips \cup move_bb), "B")

\* move is an int, given by its bits: an index 0..63 or a bitboard
text_make_move(g, move) ==
    LET move_bb == TextMoveBitboard(move)
        legal   == text_get_legal_moves(g)
    IN  IF ~TextIsLegal(move_bb, legal) THEN Outcome(TRUE, FALSE, g)
        ELSE LET pb == PlayerBitboards(g)
                 total_flips == UNION { TextFlipsInDirection(TextFlipDirections[i], move_bb,
                                            pb.player, pb.opponent) : i \in 1 .. 8 }
             IN  Outcome(TRUE, TRUE, TextApply(g, move_bb, total_flips))

\* square is a str; 1 << idx raises ValueError for a negative idx
web_make_move(g, square) ==
    LET idx == square_to_index(square)
    IN  IF ~idx.ok \/ idx.val < 0 THEN Outcome(FALSE, FALSE, g)
        ELSE LET move_bb == {idx.val}
                 legal   == web_get_legal_moves(g)
             IN  IF move_bb \cap legal = {} THEN Outcome(TRUE, FALSE, g)
                 ELSE LET pb == PlayerBitboards(g)
                          flips == UNION { WebFlipsInDirection(WebDirections[i], move_bb,
                                               pb.player, pb.opponent) : i \in 1 .. 8 }
                      IN  Outcome(TRUE, TRUE, WebApply(g, move_bb, flips))

----------------------------------------------------------------------------
(* Status queries of the text engine *)

\* can_pass that answers True whatever the legal moves are
CanPassAlways(g) == Outcome(TRUE, TRUE, g)

\* can_pass that answers False whatever the legal moves are
CanPassNever(g) == Outcome(TRUE, FALSE, g)

can_pass(g) == Outcome(TRUE, text_get_legal_moves(g) = {}, g)

\* is_game_over that asks for the legal moves of the opponent without
\* switching current_player first
IsGameOverNoSwitch(g) ==
    IF text_get_legal_moves(g) # {} THEN Outcome(TRUE, FALSE, g)
    ELSE LET has_moves == text_get_legal_moves(g) # {}
         IN  Outcome(TRUE, ~has_moves, g)

\* is_game_over that does not switch current_player back
IsGameOverNoRestore(g) ==
    IF text_get_legal_moves(g) # {} THEN Outcome(TRUE, FALSE, g)
    ELSE LET switched  == [g EXCEPT !.current_player = Other(g.current_player)]
             has_moves == text_get_legal_moves(switched) # {}
         IN  Outcome(TRUE, ~has_moves, switched)

\* current_player is switched, the legal moves are computed, and it is
\* switched back
is_game_over(g) ==
    IF text_get_legal_moves(g) # {} THEN Outcome(TRUE, FALSE, g)
    ELSE LET switched  == [g EXCEPT !.current_player = Other(g.current_player)]
             has_moves == text_get_legal_moves(switched) # {}
             restored  == [switched EXCEPT !.current_player = Other(switched.current_player)]
         IN  Outcome(TRUE, ~has_moves, restored)

get_score(g) == Outcome(TRUE, <<PopCount(g.black), PopCount(g.white)>>, g)

\* for i in range(64): the squares of the set bits, in index order
RECURSIVE SquaresFrom(_, _)
SquaresFrom(legal_bb, i) ==
    IF i >= 64 THEN <<>>
    ELSE (IF i \in legal_bb THEN <<index_to_square(i)>> ELSE <<>>)
         \o SquaresFrom(legal_bb, i + 1)

list_legal_moves(g) == Outcome(TRUE, SquaresFrom(text_get_legal_moves(g), 0), g)

\* list_legal of the web engine
list_legal(g) == Outcome(TRUE, SquaresFrom(web_get_legal_moves(g), 0), g)

----------------------------------------------------------------------------
(* The record of the last call *)

Call(op, arg, before, ok, result) ==
    [op |-> op, arg |-> arg, before |-> before, ok |-> ok, result |-> result]

NoArg == <<>>

TheGame == Game(black, white, current_player)

SetGame(g) ==
    /\ black' = g.black
    /\ white' = g.white
    /\ current_player' = g.current_player

----------------------------------------------------------------------------
(* main() of src/bitboard.py: one action is one pass through the while loop *)

\* The texts typed at the prompt
PlayedSquares ==
    { <<"A", "7">>, <<"B", "4">>, <<"B", "6">>, <<"C", "4">>, <<"C", "5">>,
      <<"E", "3">>, <<"F", "2">>, <<"F", "3">>, <<"F", "4">>, <<"G", "4">>,
      <<"H", "3">>, <<"H", "4">>, <<"H", "5">> }

PassTexts == { <<"p", "a", "s", "s">>, <<"P", "A", "S", "S">> }

OtherTexts ==
    { <<>>, <<"E">>, <<"e", "3">>, <<"E", "3", "3">>, <<"A", "0">>, <<"A", "9">>,
      <<"I", "1">>, <<"Z", "9">>, <<"@", "1">>, <<"3", "E">> }

TextInputs == PlayedSquares \cup PassTexts \cup OtherTexts

IsPassInput(user_input) == user_input = <<"P", "A", "S", "S">>

IsSquareInput(user_input) ==
    /\ Len(user_input) = 2
    /\ user_input[1] \in {"A", "B", "C", "D", "E", "F", "G", "H"}
    /\ user_input[2] \in {"1", "2", "3", "4", "5", "6", "7", "8"}

\* if game.is_game_over(): ... break
TextGameOver ==
    /\ host = "text" /\ pc = "loop"
    /\ LET over == is_game_over(TheGame)
       IN  /\ over.result
           /\ SetGame(over.game)
           /\ pc' = "exit"
           /\ last' = Call("game_over", NoArg, TheGame, TRUE, over.result)
    /\ UNCHANGED <<host, session, accepted>>

\* user_input == "PASS"
TextPass(text) ==
    /\ host = "text" /\ pc = "loop"
    /\ IsPassInput(UpperStr(text))
    /\ \E over \in {is_game_over(TheGame)} :
          /\ ~over.result
          /\ \E g \in {over.game} :
                IF can_pass(g).result
                THEN /\ SetGame([g EXCEPT !.current_player = Other(g.current_player)])
                     /\ last' = Call("pass", text, TheGame, TRUE, TRUE)
                ELSE /\ SetGame(g)
                     /\ last' = Call("pass", text, TheGame, TRUE, FALSE)
    /\ UNCHANGED <<host, pc, session, accepted>>

\* a two-character square: square_to_index, then make_move
TextMove(text) ==
    /\ host = "text" /\ pc = "loop"
    /\ ~IsPassInput(UpperStr(text))
    /\ IsSquareInput(UpperStr(text))
    /\ \E over \in {is_game_over(TheGame)}, idx \in {square_to_index(UpperStr(text))} :
          /\ ~over.result
          /\ IF ~idx.ok
             THEN /\ SetGame(over.game)
                  /\ last' = Call("move", text, TheGame, TRUE, FALSE)
                  /\ accepted' = accepted
             ELSE \E out \in {text_make_move(over.game, IntBits(idx.val))} :
                     /\ SetGame(out.game)
                     /\ last' = Call("move", text, TheGame, TRUE, out.result)
                     /\ accepted' = IF out.result THEN accepted + 1 ELSE accepted
    /\ UNCHANGED <<host, pc, session>>

\* anything else is refused
TextBadInput(text) ==
    /\ host = "text" /\ pc = "loop"
    /\ ~IsPassInput(UpperStr(text))
    /\ ~IsSquareInput(UpperStr(text))
    /\ LET over == is_game_over(TheGame)
       IN  /\ ~over.result
           /\ SetGame(over.game)
           /\ last' = Call("bad_input", text, TheGame, TRUE, FALSE)
    /\ UNCHANGED <<host, pc, session, accepted>>

----------------------------------------------------------------------------
(* The Flask application of src/web.py: one action is one request *)

\* The value of the square parameter of a /move request
WebSquares == PlayedSquares \cup PassTexts \cup OtherTexts

\* get_game: the session as it is left, and the BitBoard built from it
\* get_game without the update of the new BitBoard from the session
GetGameFresh(sess) ==
    LET made == IF sess = <<>> THEN <<NewGame>> ELSE sess
    IN  [session |-> made, board |-> NewGame]

get_game(sess) ==
    LET made == IF sess = <<>> THEN <<NewGame>> ELSE sess
    IN  [session |-> made, board |-> made[1]]

save_game(board) == <<board>>

WebIndex ==
    /\ host = "web"
    /\ LET got == get_game(session)
       IN  /\ SetGame(got.board)
           /\ session' = got.session
           /\ last' = Call("index", NoArg, got.board, TRUE, list_legal(got.board).result)
    /\ UNCHANGED <<host, pc, accepted>>

WebMove(square) ==
    /\ host = "web"
    /\ LET got == get_game(session)
           out == web_make_move(got.board, square)
       IN  /\ SetGame(out.game)
           /\ session' = IF out.ok THEN save_game(out.game) ELSE got.session
           /\ last' = Call("move", square, got.board, out.ok, out.result)
           /\ accepted' = IF out.ok /\ out.result THEN accepted + 1 ELSE accepted
    /\ UNCHANGED <<host, pc>>

WebReset ==
    /\ host = "web"
    /\ session' = <<>>
    /\ last' = Call("reset", NoArg, TheGame, TRUE, TRUE)
    /\ accepted' = 0
    /\ UNCHANGED <<host, black, white, current_player, pc>>

----------------------------------------------------------------------------
(* The program from its start *)

Init ==
    /\ host \in {"text", "web"}
    /\ black = NewGame.black
    /\ white = NewGame.white
    /\ current_player = NewGame.current_player
    /\ pc = "loop"
    /\ session = <<>>
    /\ last = Call("init", NoArg, NewGame, TRUE, TRUE)
    /\ accepted = 0

Next ==
    \/ TextGameOver
    \/ \E text \in TextInputs : TextPass(text)
    \/ \E text \in TextInputs : TextMove(text)
    \/ \E text \in TextInputs : TextBadInput(text)
    \/ WebIndex
    \/ \E square \in WebSquares : WebMove(square)
    \/ WebReset

Spec == Init /\ [][Next]_vars

----------------------------------------------------------------------------
(* main() played to its end.  The loop prints the legal moves, in index      *)
(* order, before it reads the input; the user types the first or the last   *)
(* move of the printed list for the first MaxFreeMoves accepted moves and   *)
(* the last move of the list afterwards, and at any time a pass or a text   *)
(* that is no square.                                                       *)

MaxFreeMoves == 1

\* the first and the last text of list_legal_moves, or the last alone
ListedEnds(legal, free) ==
    IF legal = {} THEN {}
    ELSE LET lowest  == CHOOSE m \in legal : \A n \in legal : m <= n
             highest == CHOOSE m \in legal : \A n \in legal : m >= n
         IN  IF free THEN {index_to_square(lowest), index_to_square(highest)}
                     ELSE {index_to_square(highest)}

ListedChoice(g) ==
    UNION { ListedEnds(legal, accepted < MaxFreeMoves) : legal \in {text_get_legal_moves(g)} }

\* a text typed that is neither a square nor a pass
LoopOtherTexts == { <<"E", "3", "3">> }

LoopInputs == ListedChoice(TheGame) \cup {<<"p", "a", "s", "s">>} \cup LoopOtherTexts

InitLoop ==
    /\ host = "text"
    /\ black = NewGame.black
    /\ white = NewGame.white
    /\ current_player = NewGame.current_player
    /\ pc = "loop"
    /\ session = <<>>
    /\ last = Call("init", NoArg, NewGame, TRUE, TRUE)
    /\ accepted = 0

NextLoop ==
    \/ TextGameOver
    \/ \E text \in LoopInputs : TextPass(text)
    \/ \E text \in LoopInputs : TextMove(text)
    \/ \E text \in LoopInputs : TextBadInput(text)

\* an input that the loop accepts: a move that make_move takes, or a pass
\* that can_pass allows
AcceptedInput ==
    /\ last'.op \in {"move", "pass"}
    /\ \E text \in LoopInputs : TextMove(text) \/ TextPass(text)
    /\ last'.result = TRUE

\* the loop runs: when the game is over it prints the result and breaks
SpecLoop ==
    /\ InitLoop /\ [][NextLoop]_vars
    /\ WF_vars(TextGameOver)

----------------------------------------------------------------------------
(* Direct calls of the methods on a BitBoard in an arbitrary position: the    *)
(* attributes black, white and current_player are public, and the web engine *)
(* is rebuilt from the session on every request.  One call is applied to     *)
(* each position drawn.                                                      *)

MaxPieces == 2

\* Files A, B, C and H of ranks 1, 2 and 3: every direction has room for a
\* capture, and both edge files are present
Region == { 8 * r + f : r \in 0 .. 2, f \in {0, 1, 2, 7} }

ApiBoards ==
    { Game(b, w, p) :
        b \in { x \in SUBSET Region : Cardinality(x) <= MaxPieces },
        w \in { x \in SUBSET Region : Cardinality(x) <= MaxPieces },
        p \in {"B", "W"} }

\* make_move of the text engine takes an int: an index, or a one-bit bitboard
ApiMoves == { IntBits(i) : i \in Region } \cup { {i} : i \in Region }

\* make_move of the web engine takes the text of the request
ApiSquares == { index_to_square(i) : i \in Region } \cup OtherTexts

InitApi ==
    /\ host \in {"text", "web"}
    /\ \E g \in ApiBoards \cup {NewGame} :
          /\ g.black \cap g.white = {}
          /\ PopCount(g.black \cup g.white) <= MaxPieces \/ g = NewGame
          /\ black = g.black
          /\ white = g.white
          /\ current_player = g.current_player
          /\ last = Call("init", NoArg, g, TRUE, TRUE)
    /\ pc = "call"
    /\ session = <<>>
    /\ accepted = 0

ApiReturn(op, arg, out) ==
    /\ SetGame(out.game)
    /\ last' = Call(op, arg, TheGame, out.ok, out.result)
    /\ pc' = "return"
    /\ UNCHANGED <<host, session, accepted>>

ApiGetLegalMoves ==
    /\ pc = "call"
    /\ ApiReturn("get_legal_moves", NoArg,
                 IF host = "text" THEN Outcome(TRUE, text_get_legal_moves(TheGame), TheGame)
                                  ELSE Outcome(TRUE, web_get_legal_moves(TheGame), TheGame))

ApiListLegalMoves ==
    /\ pc = "call"
    /\ ApiReturn("list_legal_moves", NoArg,
                 IF host = "text" THEN list_legal_moves(TheGame) ELSE list_legal(TheGame))

ApiCanPass ==
    /\ pc = "call" /\ host = "text"
    /\ ApiReturn("can_pass", NoArg, can_pass(TheGame))

ApiIsGameOver ==
    /\ pc = "call" /\ host = "text"
    /\ ApiReturn("is_game_over", NoArg, is_game_over(TheGame))

ApiGetScore ==
    /\ pc = "call" /\ host = "text"
    /\ ApiReturn("get_score", NoArg, get_score(TheGame))

ApiTextMakeMove(move) ==
    /\ pc = "call" /\ host = "text"
    /\ ApiReturn("make_move", move, text_make_move(TheGame, move))

ApiWebMakeMove(square) ==
    /\ pc = "call" /\ host = "web"
    /\ ApiReturn("make_move", square, web_make_move(TheGame, square))

NextApi ==
    \/ ApiGetLegalMoves
    \/ ApiListLegalMoves
    \/ ApiCanPass
    \/ ApiIsGameOver
    \/ ApiGetScore
    \/ \E move \in ApiMoves : ApiTextMakeMove(move)
    \/ \E square \in ApiSquares : ApiWebMakeMove(square)

SpecApi == InitApi /\ [][NextApi]_vars

----------------------------------------------------------------------------
(* Direct calls of get_legal_moves and make_move on positions that hold one  *)
(* piece of one colour and, from the square next to it, a run of pieces of   *)
(* the other colour along one shift: the positions on which the walks are    *)
(* longest.  The run is laid out on the bit indexes, as the shifts see it.   *)

MaxRun == 8

RayShifts == {1, -1, 8, -8, 9, 7, -7, -9}

RayRun(p, shift, n) == { p + k * shift : k \in 1 .. n }

RayBoards ==
    UNION { { Game({p}, RayRun(p, shift, n), mover), Game(RayRun(p, shift, n), {p}, mover) }
            : <<p, shift, n, mover>> \in
                { t \in ALL64 \X RayShifts \X (1 .. MaxRun) \X {"B", "W"} :
                    RayRun(t[1], t[2], t[3]) \subseteq ALL64 } }

\* the caller asks for the moves get_legal_moves returns
RayMoves == { IntBits(i) : i \in text_get_legal_moves(TheGame) }

RaySquares == { index_to_square(i) : i \in web_get_legal_moves(TheGame) }

InitRay ==
    /\ host \in {"text", "web"}
    /\ \E g \in RayBoards :
          /\ black = g.black
          /\ white = g.white
          /\ current_player = g.current_player
          /\ last = Call("init", NoArg, g, TRUE, TRUE)
    /\ pc = "call"
    /\ session = <<>>
    /\ accepted = 0

NextRay ==
    \/ ApiGetLegalMoves
    \/ \E move \in RayMoves : ApiTextMakeMove(move)
    \/ \E square \in RaySquares : ApiWebMakeMove(square)

SpecRay == InitRay /\ [][NextRay]_vars

----------------------------------------------------------------------------
(* Direct calls of the two static methods of the coordinate codec *)

MaxLen == 3

IndexSlack == 4

CodecChars == {"A", "H", "I", "a", "h", "@", "0", "1", "8", "9"}

\* the 128 texts of a file letter in either case and a rank digit
SquareTexts ==
    { <<f, r>> : f \in {"A", "B", "C", "D", "E", "F", "G", "H",
                         "a", "b", "c", "d", "e", "f", "g", "h"},
                 r \in {"1", "2", "3", "4", "5", "6", "7", "8"} }

CodecTexts == UNION { [1 .. n -> CodecChars] : n \in 0 .. MaxLen } \cup SquareTexts

CodecIndexes == (0 - IndexSlack) .. (63 + IndexSlack)

InitCodec ==
    /\ host \in {"text", "web"}
    /\ black = NewGame.black
    /\ white = NewGame.white
    /\ current_player = NewGame.current_player
    /\ pc = "call"
    /\ session = <<>>
    /\ last = Call("init", NoArg, NewGame, TRUE, TRUE)
    /\ accepted = 0

CodecSquareToIndex(square) ==
    /\ pc = "call"
    /\ LET r == square_to_index(square)
       IN  last' = Call("square_to_index", square, TheGame, r.ok, r.val)
    /\ pc' = "return"
    /\ UNCHANGED <<host, black, white, current_player, session, accepted>>

CodecIndexToSquare(index) ==
    /\ pc = "call"
    /\ last' = Call("index_to_square", index, TheGame, TRUE, index_to_square(index))
    /\ pc' = "return"
    /\ UNCHANGED <<host, black, white, current_player, session, accepted>>

NextCodec ==
    \/ \E square \in CodecTexts : CodecSquareToIndex(square)
    \/ \E index \in CodecIndexes : CodecIndexToSquare(index)

SpecCodec == InitCodec /\ [][NextCodec]_vars

----------------------------------------------------------------------------
(* The rule of the game, by files and ranks, against which the engines are  *)
(* compared                                                                 *)

Compass ==
    { <<1, 0>>, <<-1, 0>>, <<0, 1>>, <<0, -1>>, <<1, 1>>, <<-1, 1>>, <<1, -1>>, <<-1, -1>> }

\* the square k steps from s in direction d, or -1 when that is off the board
Walk(s, d, k) ==
    LET f == (s % 8) + k * d[1]
        r == (s \div 8) + k * d[2]
    IN  IF f \in 0 .. 7 /\ r \in 0 .. 7 THEN 8 * r + f ELSE -1

\* the lengths k of a run of opponent pieces next to s in direction d that is
\* followed at once by a piece of the player
RuleRuns(s, d, player, opponent) ==
    { k \in 1 .. 6 : /\ \A j \in 1 .. k : Walk(s, d, j) \in opponent
                     /\ Walk(s, d, k + 1) \in player }

RuleFlips(g, s) ==
    LET pb == PlayerBitboards(g)
    IN  UNION { { Walk(s, dk[1], j) : j \in 1 .. dk[2] } :
                  dk \in { x \in Compass \X (1 .. 6) :
                             x[2] \in RuleRuns(s, x[1], pb.player, pb.opponent) } }

RuleLegal(g) ==
    { s \in ALL64 : /\ s \notin g.black \cup g.white
                    /\ RuleFlips(g, s) # {} }

RuleSuccessor(g, s) ==
    LET F == RuleFlips(g, s)
    IN  IF g.current_player = "B"
        THEN Game(g.black \cup {s} \cup F, g.white \ F, "W")
        ELSE Game(g.black \ F, g.white \cup {s} \cup F, "B")

\* the legal-move set of the engine of the running host
EngineLegal(g) == IF host = "text" THEN text_get_legal_moves(g) ELSE web_get_legal_moves(g)

Switched(g) == [g EXCEPT !.current_player = Other(g.current_player)]

Occupied(g) == g.black \cup g.white

\* a move was asked of make_move by the last loop pass or /move request
MoveAsked == last.op = "move"

\* the index the text of the last move stands for
AskedIndex ==
    IF host = "text" THEN square_to_index(UpperStr(last.arg)) ELSE square_to_index(last.arg)

MoveDone == MoveAsked /\ last.ok /\ last.result = TRUE

----------------------------------------------------------------------------
(* C1: in every state reached from the start by moves (accepted or refused) *)
(* and passes, no square is held by both colours, in the game object and in *)
(* the game stored in the session.                                          *)
C1_NoSquareOfBothColours ==
    /\ black \cap white = {}
    /\ session # <<>> => session[1].black \cap session[1].white = {}

\* a move was accepted and turned pieces over
C1_Witness ==
    /\ MoveDone
    /\ black # last.before.black
    /\ white # last.before.white

(* C2: get_legal_moves returns exactly the empty squares from which, in at  *)
(* least one of the eight directions of the board, a run of one or more     *)
(* opponent pieces is followed at once by a piece of the player to move.    *)
C2_LegalMovesAreTheRule ==
    last.op = "get_legal_moves" => last.result = RuleLegal(last.before)

(* C3: for a target in the legal-move set make_move succeeds, the mover     *)
(* gains the target and the captured runs, the opponent loses the captured  *)
(* runs, and the turn passes to the other player.                           *)
C3_MoveAppliesTheRule ==
    (MoveAsked /\ AskedIndex.ok /\ AskedIndex.val \in EngineLegal(last.before))
        => /\ last.ok
           /\ last.result = TRUE
           /\ TheGame = RuleSuccessor(last.before, AskedIndex.val)

(* C4: make_move with a target index 0..63 that is not in the legal-move    *)
(* set returns False and leaves black, white and current_player as they     *)
(* were.                                                                    *)
C4_IllegalMoveRefused ==
    /\ (/\ last.op = "make_move" /\ host = "text"
        /\ BitLength(last.arg) <= 6
        /\ IntValue(last.arg) \notin text_get_legal_moves(last.before))
          => (last.ok /\ last.result = FALSE /\ TheGame = last.before)
    /\ (/\ last.op = "make_move" /\ host = "web"
        /\ square_to_index(last.arg).ok
        /\ square_to_index(last.arg).val \in 0 .. 63
        /\ square_to_index(last.arg).val \notin web_get_legal_moves(last.before))
          => (last.ok /\ last.result = FALSE /\ TheGame = last.before)

\* an index was refused in a position that has a legal move
C4_Witness ==
    /\ last.op = "make_move" /\ host = "text"
    /\ BitLength(last.arg) <= 6
    /\ text_get_legal_moves(last.before) # {}
    /\ IntValue(last.arg) \notin text_get_legal_moves(last.before)
    /\ last.result = FALSE

(* C5: every accepted make_move raises popcount(black) + popcount(white) by *)
(* exactly one: the target is the only square newly occupied, and no square *)
(* is emptied.                                                              *)
C5_OneMorePiece ==
    MoveDone =>
        /\ PopCount(black) + PopCount(white)
              = PopCount(last.before.black) + PopCount(last.before.white) + 1
        /\ Occupied(TheGame) = Occupied(last.before) \cup {AskedIndex.val}

\* a move late in a game of the text loop
C5_Witness ==
    /\ MoveDone
    /\ host = "text"
    /\ PopCount(Occupied(TheGame)) >= 12

(* C6: in the text loop a pass is accepted only when the player to move has *)
(* no legal move; an accepted pass switches current_player and leaves black *)
(* and white alone; a refused pass changes nothing.                         *)
C6_PassOnlyWithoutMoves ==
    last.op = "pass" =>
        /\ last.result = TRUE <=> text_get_legal_moves(last.before) = {}
        /\ last.result = TRUE => TheGame = Switched(last.before)
        /\ last.result = FALSE => TheGame = last.before

\* a pass was accepted
C6_Witness ==
    /\ last.op = "pass"
    /\ last.result = TRUE
    /\ current_player # last.before.current_player

\* the position the next input or request acts on
Position == IF host = "web" THEN get_game(session).board ELSE TheGame

\* the player to move has no legal move and the opponent has one
NeedsPass ==
    /\ pc # "exit"
    /\ EngineLegal(Position) = {}
    /\ EngineLegal(Switched(Position)) # {}

\* a step that switches the turn of the position and nothing else of it
PassStep ==
    /\ Next
    /\ IF host = "web"
       THEN session' = <<Switched(get_game(session).board)>>
       ELSE /\ current_player' = Other(current_player)
            /\ black' = black
            /\ white' = white

(* C7: in the text loop and in the /move handler alike, whenever the player *)
(* to move has no legal move and the opponent has one, a pass that switches *)
(* only the turn can be made.                                               *)
C7_PassAlwaysAvailable == NeedsPass => ENABLED PassStep

(* C8: is_game_over returns True exactly when the legal-move set of the     *)
(* player to move is empty and the legal-move set of the other player, on   *)
(* the same board, is empty too.                                            *)
C8_GameOverIffNobodyMoves ==
    last.op = "is_game_over" =>
        (last.result = TRUE <=>
            /\ text_get_legal_moves(last.before) = {}
            /\ text_get_legal_moves(Switched(last.before)) = {})

\* only the player to move is without a move, and the answer is False
C8_Witness ==
    /\ last.op = "is_game_over"
    /\ text_get_legal_moves(last.before) = {}
    /\ text_get_legal_moves(Switched(last.before)) # {}
    /\ last.result = FALSE

(* C9: get_legal_moves, list_legal_moves, can_pass, is_game_over and        *)
(* get_score leave black, white and current_player as they were.            *)
C9_QueriesChangeNothing ==
    last.op \in {"get_legal_moves", "list_legal_moves", "can_pass", "is_game_over", "get_score"}
        => TheGame = last.before

\* is_game_over went through the switch of current_player and returned True
C9_Witness ==
    /\ last.op = "is_game_over"
    /\ Occupied(last.before) # {}
    /\ last.result = TRUE
    /\ current_player = last.before.current_player

\* two characters, a file letter A-H in either case and a rank digit 1-8
ValidSquareText(t) ==
    /\ Len(t) = 2
    /\ Upper(t[1]) \in {"A", "B", "C", "D", "E", "F", "G", "H"}
    /\ t[2] \in {"1", "2", "3", "4", "5", "6", "7", "8"}

(* C10: square_to_index fails for every text that is not a file letter A-H  *)
(* followed by a rank digit 1-8, and index_to_square fails for every index  *)
(* outside 0..63.                                                           *)
C10_CodecRejectsInvalid ==
    /\ (last.op = "square_to_index" /\ ~ValidSquareText(last.arg)) => ~last.ok
    /\ (last.op = "index_to_square" /\ last.arg \notin 0 .. 63) => ~last.ok

(* C11: a move request whose text is not a file letter A-H, in either case, *)
(* followed by a rank digit 1-8 and nothing else changes neither black nor  *)
(* white nor the turn, in the text loop and in the /move handler alike.     *)
C11_InvalidTextChangesNothing ==
    (last.op \in {"move", "bad_input"} /\ ~ValidSquareText(last.arg))
        => /\ TheGame = last.before
           /\ Position = last.before

\* the file letters in board order, and the rank digits
FileLetters == <<"A", "B", "C", "D", "E", "F", "G", "H">>

LowerFileLetters == <<"a", "b", "c", "d", "e", "f", "g", "h">>

RankDigits == <<"1", "2", "3", "4", "5", "6", "7", "8">>

\* file - 'A' of a file letter of either case, and rank - 1 of a rank digit
FileOf(c) == CHOOSE f \in 0 .. 7 : FileLetters[f + 1] = c \/ LowerFileLetters[f + 1] = c

RankOf(c) == CHOOSE r \in 0 .. 7 : RankDigits[r + 1] = c

(* C12: square_to_index(index_to_square(i)) is i for every index 0..63;     *)
(* for a file letter A-H of either case followed by a rank digit 1-8,       *)
(* square_to_index is (rank - 1) * 8 + (file - A), and index_to_square of   *)
(* it is the same text with the file letter in upper case.                  *)
C12_CodecRoundTrip ==
    /\ (last.op = "index_to_square" /\ last.arg \in 0 .. 63)
          => square_to_index(last.result) = Returned(last.arg)
    /\ (last.op = "square_to_index" /\ ValidSquareText(last.arg))
          => /\ last.ok
             /\ last.result = RankOf(last.arg[2]) * 8 + FileOf(last.arg[1])
             /\ index_to_square(last.result)
                   = <<FileLetters[FileOf(last.arg[1]) + 1], last.arg[2]>>

\* a lower-case text was converted
C12_Witness ==
    /\ last.op = "square_to_index"
    /\ last.arg = <<"h", "8">>
    /\ last.ok
    /\ last.result = 63

\* the game a BitBoard() is: made by main at its start, and by get_game when
\* the session holds none
IsStartWithItsFourMoves(g) ==
    /\ g.black = {27, 36}
    /\ g.white = {35, 28}
    /\ g.current_player = "B"
    /\ text_get_legal_moves(g) = {34, 43, 20, 29}
    /\ web_get_legal_moves(g) = {34, 43, 20, 29}
    /\ list_legal_moves(g).result
          = << <<"E", "3">>, <<"F", "4">>, <<"C", "5">>, <<"D", "6">> >>
    /\ list_legal(g).result = list_legal_moves(g).result

(* C13: a newly created game has black on D4 and E5, white on D5 and E4,    *)
(* Black to move, and C5, D6, E3 and F4 as its legal moves and no other.    *)
C13_NewGameAndItsMoves ==
    /\ last.op = "init" => IsStartWithItsFourMoves(TheGame)
    /\ (host = "web" /\ session = <<>>) => IsStartWithItsFourMoves(Position)

\* a game that had been played was reset: the next request creates a game
C13_Witness ==
    /\ last.op = "reset"
    /\ PopCount(Occupied(last.before)) > 4
    /\ session = <<>>

\* what the web host holds after a request that went through get_game
SessionHoldsTheGame ==
    host = "web" =>
        /\ get_game(save_game(TheGame)).board = TheGame
        /\ web_get_legal_moves(get_game(save_game(TheGame)).board)
              = web_get_legal_moves(TheGame)
        /\ last.op \in {"move", "index"} => (session # <<>> /\ session[1] = TheGame)

\* a /move request acts on the game the session held before it
MoveActsOnSessionGame ==
    (host = "web" /\ last'.op = "move" /\ session # <<>>) => last'.before = session[1]

(* C14: a game saved with save_game and restored with get_game has the same *)
(* black, white and current_player, hence the same legal moves; over any    *)
(* sequence of /move requests the game restored at a request is the game    *)
(* the request before it produced.                                          *)
C14_SessionRoundTrip == [] SessionHoldsTheGame /\ [][MoveActsOnSessionGame]_vars

\* a move accepted on a game that an earlier request had left in the session
C14_Witness ==
    /\ host = "web"
    /\ MoveDone
    /\ PopCount(Occupied(last.before)) > 4
    /\ session = <<TheGame>>

\* the change of file a shift of one step stands for
FileStep(shift) ==
    IF shift \in {1, 9, -7} THEN 1 ELSE IF shift \in {-1, 7, -9} THEN -1 ELSE 0

\* the squares of src from which a shift lands on a kept square that is not
\* on the file FileStep tells
WrappedSteps(src, shift, keep) ==
    { b \in src : /\ (b + shift) \in keep
                  /\ ((b + shift) % 8) - (b % 8) # FileStep(shift) }

\* every candidate set a walk goes through, put together
RECURSIVE CandsOfWalk(_, _, _)
CandsOfWalk(mask, shift, cand) ==
    IF cand = {} THEN {}
    ELSE cand \cup CandsOfWalk(mask, shift, mask \cap Shift(cand, shift))

\* the wrapped steps of get_legal_moves in one direction
LegalWraps(g, d) ==
    LET pb    == PlayerBitboards(g)
        mask  == pb.opponent \ d.mask_file
        empty == ALL64 \ (pb.player \cup pb.opponent)
        cands == CandsOfWalk(mask, d.shift, mask \cap Shift(pb.player, d.shift))
    IN  WrappedSteps(pb.player, d.shift, mask)
            \cup WrappedSteps(cands, d.shift, mask \cup empty)

\* the wrapped steps of make_move in one direction
MoveWraps(g, move_bb, d) ==
    LET pb    == PlayerBitboards(g)
        mask  == pb.opponent \ d.mask_file
        first == mask \cap Shift(move_bb, d.first)
        walk  == FlipWalk(mask, d.step, first, {})
    IN  WrappedSteps(move_bb, d.first, mask)
            \cup WrappedSteps(CandsOfWalk(mask, d.step, first), d.step, mask)
            \cup WrappedSteps(walk.cand, d.end, pb.player)

WebFlipDirection(d) ==
    [first |-> d.shift, step |-> d.shift, end |-> d.shift, mask_file |-> d.mask_file]

\* the bitboard of the target of the last make_move
LastMoveBitboard ==
    IF host = "text" THEN TextMoveBitboard(last.arg) ELSE {square_to_index(last.arg).val}

\* the opponent pieces the last call turned over
LastFlipped == PlayerBitboards(last.before).opponent \cap PlayerBitboards(Switched(TheGame)).player

(* C15: in get_legal_moves and in make_move every shift step of the East,   *)
(* West and diagonal walks, the first step from a player piece or from the  *)
(* target included, lands one file from where it started, so that no square *)
(* enters the legal-move set or the flip set through a step between the     *)
(* H-file and the A-file.                                                   *)
C15_NoStepWraps ==
    /\ last.op = "get_legal_moves" =>
          /\ \A i \in 1 .. 8 :
                LegalWraps(last.before, IF host = "text" THEN TextLegalDirections[i]
                                                         ELSE WebDirections[i]) = {}
          /\ last.result \subseteq RuleLegal(last.before)
    /\ (last.op = "make_move" /\ last.ok /\ last.result = TRUE) =>
          /\ \A i \in 1 .. 8 :
                MoveWraps(last.before, LastMoveBitboard,
                          IF host = "text" THEN TextFlipDirections[i]
                                           ELSE WebFlipDirection(WebDirections[i])) = {}
          /\ \A s \in LastMoveBitboard : LastFlipped \subseteq RuleFlips(last.before, s)

(* C16: on every board the engine of src/bitboard.py and the engine of      *)
(* src/web.py return the same legal-move set, and for every target square   *)
(* they agree on whether make_move accepts it and on black, white and the   *)
(* turn after it.                                                           *)
C16_EnginesAgree ==
    LET g == Position
    IN  /\ text_get_legal_moves(g) = web_get_legal_moves(g)
        /\ \A s \in ALL64 :
              LET t == text_make_move(g, IntBits(s))
                  w == web_make_move(g, index_to_square(s))
              IN  /\ w.ok
                  /\ t.result = w.result
                  /\ t.game = w.game

(* C17: for every square i of 0..63 and every state, make_move of the text  *)
(* engine called with the one-bit bitboard 1 << i returns what it returns   *)
(* when called with the index i, and leaves the same black, white and turn. *)
C17_OneBitBitboardIsTheIndex ==
    (last.op = "make_move" /\ host = "text" /\ BitLength(last.arg) <= 6) =>
        LET i == IntValue(last.arg)
            o == text_make_move(last.before, {i})
        IN  /\ o.result = last.result
            /\ o.game = TheGame

\* the pieces of colour p in game g
PiecesOf(g, p) == IF p = "B" THEN g.black ELSE g.white

(* C18: every make_move that succeeds, in any state reached in play, turns  *)
(* over at least one opponent piece: the opponent has fewer pieces after    *)
(* it, and the mover has at least two more.                                 *)
C18_EveryMoveFlips ==
    MoveDone =>
        LET mover == last.before.current_player
        IN  /\ PopCount(PiecesOf(TheGame, Other(mover)))
                  < PopCount(PiecesOf(last.before, Other(mover)))
            /\ PopCount(PiecesOf(TheGame, mover))
                  >= PopCount(PiecesOf(last.before, mover)) + 2

\* the last input was a pass that the loop accepted
PassAccepted == last.op = "pass" /\ last.result = TRUE

\* what the loop answers to an input typed in game g: TRUE when it passes
\* or plays the move
Accepts(g, text) ==
    IF IsPassInput(UpperStr(text)) THEN can_pass(g).result
    ELSE /\ IsSquareInput(UpperStr(text))
         /\ square_to_index(UpperStr(text)).ok
         /\ text_make_move(g, IntBits(square_to_index(UpperStr(text)).val)).result

\* the loop is waiting for an input and would accept one of those typed
CanAccept ==
    /\ pc = "loop"
    /\ ~is_game_over(TheGame).result
    /\ \E text \in LoopInputs : Accepts(TheGame, text)

LoopSafe ==
    /\ accepted <= 60
    /\ PassAccepted => text_get_legal_moves(TheGame) # {}
    /\ (pc = "loop" /\ ~is_game_over(TheGame).result) => CanAccept

\* the user does not type refused inputs for ever while an input would be
\* accepted
UserKeepsPlaying == ([]<>(~CanAccept)) \/ ([]<><<AcceptedInput>>_vars)

NoPassAfterPass == ~(PassAccepted /\ PassAccepted' /\ last' # last)

(* C19: in the text loop an accepted pass is never followed at once by      *)
(* another accepted pass, at most 60 moves are accepted in a game, while    *)
(* the game is not over some input is accepted, and, the user typing an     *)
(* accepted input again and again, the game gets over and the loop exits.   *)
C19_LoopEnds ==
    /\ [] LoopSafe
    /\ [][NoPassAfterPass]_vars
    /\ UserKeepsPlaying => <>(pc = "exit")

\* the loop left after a game of sixty accepted moves
C19_Witness ==
    /\ pc = "exit"
    /\ last.op = "game_over"
    /\ accepted = 60

\* the direction tables of the engine that served the last call
LastLegalDirections == IF host = "text" THEN TextLegalDirections ELSE WebDirections

\* the loop counts of the eight walks of get_legal_moves in the last call
LastLegalIterations ==
    LET pb == PlayerBitboards(last.before)
    IN  [i \in 1 .. 8 |-> LegalIterations(LastLegalDirections[i], pb.player, pb.opponent)]

\* the loop counts of the eight walks of an accepted make_move
LastFlipIterations ==
    LET pb == PlayerBitboards(last.before)
    IN  [i \in 1 .. 8 |->
            IF host = "text"
            THEN TextFlipIterations(TextFlipDirections[i], LastMoveBitboard, pb.opponent)
            ELSE WebFlipIterations(WebDirections[i], LastMoveBitboard, pb.opponent)]

MakeMoveAccepted == last.op = "make_move" /\ last.ok /\ last.result = TRUE

(* C20: in a call of get_legal_moves, and in the legality test and the flip *)
(* walks of an accepted make_move, the while loop of each of the eight      *)
(* directions ends, and its body has run at most 7 times.                   *)
C20_WalksEndWithinSeven ==
    /\ last.op \in {"get_legal_moves", "make_move"} =>
          \A i \in 1 .. 8 : LastLegalIterations[i] <= 7
    /\ MakeMoveAccepted => \A i \in 1 .. 8 : LastFlipIterations[i] <= 7

\* a walk of get_legal_moves whose body ran seven times
C20_Witness ==
    /\ last.op = "get_legal_moves"
    /\ \E i \in 1 .. 8 : LastLegalIterations[i] = 7

====
